---- MODULE Spec2Model ----
(***************************************************************************)
(* ComponentDecoratorHandler (ngtsc/annotations/src/component.ts): the     *)
(* detect / analyze / compile protocol of the @Component handler, run by a *)
(* two-pass driver over the declarations of one compilation unit.          *)
(*                                                                         *)
(* The handler's three methods are operators (detect, analyze, compile)    *)
(* translated from the source.  Their collaborators (the base metadata     *)
(* extractor, the static evaluator, the template parser, the scope         *)
(* registry's lookup and the code generator) are not part of the file:     *)
(* each answer of a collaborator is drawn from a small set.                *)
(***************************************************************************)
EXTENDS Integers, Sequences, FiniteSets, TLC

\* ------------------------------------------------------------------ bounds
NumDecls == 2        \* declarations in the compilation unit
MaxDecorators == 2   \* decorators on one declaration
MaxArgs == 2         \* arguments of one decorator
MaxCompiles == 2     \* compile calls for one declaration
MaxErrors == 2       \* parse errors of one template

VARIABLES
  state,      \* [Decl -> status]: the driver's per-declaration state machine
  detected,   \* [Decl -> decorator found by detect, or NoDecorator]
  analysis,   \* [Decl -> the `analysis` returned by analyze, or NoAnalysis]
  results,    \* [Decl -> the CompileResult returned by compile, or NoResult]
  registry,   \* SelectorScopeRegistry: function from registered Decl to selector
  regLog,     \* every registerSelector / lookupCompilationScope call so far, in order
  invoked,    \* [Decl -> how often analyze and compile were invoked for it]
  last        \* the most recent handler call: its inputs, outcome and collaborator calls

vars == <<state, detected, analysis, results, registry, regLog, invoked, last>>

\* ------------------------------------------------------------------ values
Decl == 1..NumDecls

\* node.name!.text
NameOf(node) == "Class" \o ToString(node)

\* node.getSourceFile().fileName
FileNameOf(node) == "unit.ts"

\* A statically resolved value: its `typeof` tag and its payload.
Val(t, v) == [t |-> t, v |-> v]
StringVal(s) == Val("string", s)
BooleanVal(b) == Val("boolean", b)
NullVal == Val("null", "null")
UnknownVal == Val("unknown", "")
NumberVal(n) == Val("number", n)

\* typeof value
typeof(value) == value.t

EmptyFields == [f \in {} |-> UnknownVal]

\* The values a `template` initializer can resolve to.
TemplateValues == {StringVal("<div></div>"), NumberVal("42"), UnknownVal}

\* The values a `preserveWhitespaces` initializer can resolve to.
WhitespaceValues == {BooleanVal("true"), BooleanVal("false"), StringVal("yes"), UnknownVal}

\* The property maps of the object literals a decorator can be given.
FieldMaps ==
  { t @@ w : t \in {EmptyFields} \cup {("template" :> v) : v \in TemplateValues},
             w \in {EmptyFields} \cup {("preserveWhitespaces" :> v) : v \in WhitespaceValues} }

\* Argument expressions: an object literal with its properties, or a reference.
ObjectLiteral(fields) == [kind |-> "ObjectLiteralExpression", fields |-> fields]
Identifier == [kind |-> "Identifier", fields |-> EmptyFields]
ArgExprs == {Identifier} \cup {ObjectLiteral(f) : f \in FieldMaps}

\* decorator.args: null, or the list of argument expressions.  Arguments after
\* the first are references.
NullArgs == [isNull |-> TRUE, list |-> <<>>]
ArgList(list) == [isNull |-> FALSE, list |-> list]
RECURSIVE Refs(_)
Refs(n) == IF n = 0 THEN <<>> ELSE <<Identifier>> \o Refs(n - 1)
ArgLists ==
  {NullArgs, ArgList(<<>>)}
    \cup {ArgList(<<a>> \o Refs(n)) : a \in ArgExprs, n \in 0..(MaxArgs - 1)}

\* Decorator as reflected by the host, without its arguments: its name and the
\* module it was imported from.
Names == {"Component", "Directive"}
Origins == {"@angular/core", "some-lib"}
DecoratorRefs == [name : Names, from : Origins]
RECURSIVE DecoratorListsOfLen(_)
DecoratorListsOfLen(n) ==
  IF n = 0 THEN {<<>>}
  ELSE {l \o <<x>> : l \in DecoratorListsOfLen(n - 1), x \in DecoratorRefs}
DecoratorLists == UNION {DecoratorListsOfLen(n) : n \in 0..MaxDecorators}

NoDecorator == [name |-> "", from |-> ""]

\* ------------------------------------------------------------------ detect
\* isAngularCore(decorator)
isAngularCore(decorator) == decorator.from = "@angular/core"

\* Mutation of Matches: the origin of the decorator is not looked at.
Matches_NameOnly(decorator) == decorator.name = "Component"

\* The predicate handed to Array.prototype.find.
Matches(decorator) == decorator.name = "Component" /\ isAngularCore(decorator)

\* Array.prototype.find: the first element satisfying the predicate, else
\* undefined.  `index` tells which element of the list the returned one is.
RECURSIVE find(_, _)
find(list, i) ==
  IF i > Len(list) THEN [found |-> FALSE, index |-> 0, value |-> NoDecorator]
  ELSE IF Matches(list[i]) THEN [found |-> TRUE, index |-> i, value |-> list[i]]
  ELSE find(list, i + 1)

detect(decorators) == find(decorators, 1)

\* ------------------------------------------------------------------ analyze
\* const EMPTY_MAP = new Map<string, Expression>(): one object, created once.
\* A map is its identity and its entries.
MapObject(id, entries) == [id |-> id, entries |-> entries]
EMPTY_MAP == MapObject(0, {})

\* Answers of extractDirectiveMetadata: undefined (the directive has `jit: true`),
\* or the directive metadata with a selector that is null or a string.
Selectors == {NullVal, StringVal("my-cmp")}
DirectiveMetadata(node, selector) ==
  [undefined |-> FALSE, name |-> NameOf(node), selector |-> selector]
UndefinedMetadata == [undefined |-> TRUE, name |-> "", selector |-> NullVal]
ExtractAnswers(node) ==
  {UndefinedMetadata} \cup {DirectiveMetadata(node, s) : s \in Selectors}

\* Answers of parseTemplate: the nodes, and `errors` either undefined or a list
\* of parse errors (each stands for its toString()).
ParseErrors == {"unclosed tag div", "unexpected closing tag"}
RECURSIVE ErrorListsOfLen(_)
ErrorListsOfLen(n) ==
  IF n = 0 THEN {<<>>}
  ELSE {l \o <<e>> : l \in ErrorListsOfLen(n - 1), e \in ParseErrors}
ErrorLists == UNION {ErrorListsOfLen(n) : n \in 0..MaxErrors}
ParsedTemplate(nodes) == [nodes |-> nodes, errorsDefined |-> FALSE, errors |-> <<>>]
FailedTemplate(errors) == [nodes |-> <<>>, errorsDefined |-> TRUE, errors |-> errors]
ParseAnswers ==
  {ParsedTemplate(<<"Element:div">>)} \cup {FailedTemplate(e) : e \in ErrorLists}

\* A call made to a collaborator: the function and its (string) arguments.
Call(fn, args) == [fn |-> fn, args |-> args]

\* Mutation of join: only the first element is reported.
join_FirstOnly(list, sep) == IF Len(list) = 0 THEN <<>> ELSE <<list[1]>>

\* Array.prototype.join(sep), as the pieces of the resulting string.
RECURSIVE join(_, _)
join(list, sep) ==
  IF Len(list) = 0 THEN <<>>
  ELSE IF Len(list) = 1 THEN <<list[1]>>
  ELSE <<list[1], sep>> \o join(Tail(list), sep)

NoAnalysis == [none |-> TRUE]

\* The local state of one analyze call.  `status` is "running" until the call
\* throws ("throw"), returns {} ("empty") or returns {analysis} ("analysis").
\* A message is the sequence of the pieces of the template string.
StartAnalyze(node, decorator) ==
  [ node |-> node, decorator |-> decorator,
    status |-> "running", error |-> <<>>, calls |-> <<>>,
    directiveMetadata |-> UndefinedMetadata,
    component |-> EmptyFields,
    templateStr |-> UnknownVal,
    preserveWhitespaces |-> UnknownVal,
    template |-> ParsedTemplate(<<>>),
    analysis |-> NoAnalysis ]

Throw(c, message) == [c EXCEPT !.status = "throw", !.error = message]

\* Mutation of WrongArity: only an empty argument list is refused.
WrongArity_OnlyEmpty(decorator) == decorator.args.isNull \/ Len(decorator.args.list) < 1

\* decorator.args === null || decorator.args.length !== 1
WrongArity(decorator) == decorator.args.isNull \/ Len(decorator.args.list) # 1

CheckArity(c) ==
  IF WrongArity(c.decorator)
  THEN Throw(c, <<"Incorrect number of arguments to @Component decorator">>)
  ELSE c

\* ts.isObjectLiteralExpression(meta)
isObjectLiteralExpression(meta) == meta.kind = "ObjectLiteralExpression"

CheckLiteral(c) ==
  LET meta == c.decorator.args.list[1] IN
  IF ~isObjectLiteralExpression(meta)
  THEN Throw(c, <<"Decorator argument must be literal.">>)
  ELSE c

\* Mutation of ExtractDirective: an undefined answer does not end the call.
ExtractDirective_NoSkip(c) ==
  { [c EXCEPT !.calls = @ \o <<Call("extractDirectiveMetadata", <<>>)>>,
              !.directiveMetadata = directiveMetadata]
    : directiveMetadata \in ExtractAnswers(c.node) }

\* One outcome for each answer the extractor can give.
ExtractDirective(c) ==
  { LET called == [c EXCEPT !.calls = @ \o <<Call("extractDirectiveMetadata", <<>>)>>,
                            !.directiveMetadata = directiveMetadata]
    IN IF directiveMetadata.undefined
       THEN [called EXCEPT !.status = "empty"]
       ELSE called
    : directiveMetadata \in ExtractAnswers(c.node) }

\* reflectObjectLiteral(meta): the literal's properties by name.
reflectObjectLiteral(meta) == meta.fields

ReadComponent(c) ==
  LET meta == c.decorator.args.list[1] IN
  [c EXCEPT !.calls = @ \o <<Call("reflectObjectLiteral", <<>>)>>,
            !.component = reflectObjectLiteral(meta)]

\* component.has(name)
has(component, name) == name \in DOMAIN component

\* staticallyResolve(component.get(name)!, checker): the value the property's
\* initializer resolves to.
staticallyResolve(component, name) == component[name]

\* Mutation of ResolveTemplate: the type of the resolved template is not tested.
ResolveTemplate_Unchecked(c) ==
  IF ~has(c.component, "template")
  THEN Throw(c, <<"For now, components must directly have a template.">>)
  ELSE [c EXCEPT !.calls = @ \o <<Call("staticallyResolve", <<"template">>)>>,
                 !.templateStr = staticallyResolve(c.component, "template")]

ResolveTemplate(c) ==
  IF ~has(c.component, "template")
  THEN Throw(c, <<"For now, components must directly have a template.">>)
  ELSE
    LET templateStr == staticallyResolve(c.component, "template")
        called == [c EXCEPT !.calls = @ \o <<Call("staticallyResolve", <<"template">>)>>]
    IN IF typeof(templateStr) # "string"
       THEN Throw(called, <<"Template must statically resolve to a string: ", NameOf(c.node)>>)
       ELSE [called EXCEPT !.templateStr = templateStr]

\* Mutation of DefaultPreserveWhitespaces: whitespace is preserved by default.
DefaultPreserveWhitespaces_True == BooleanVal("true")

\* let preserveWhitespaces: boolean = false
DefaultPreserveWhitespaces == BooleanVal("false")

ResolveWhitespaces(c) ==
  IF has(c.component, "preserveWhitespaces")
  THEN
    LET value == staticallyResolve(c.component, "preserveWhitespaces")
        called == [c EXCEPT !.calls = @ \o <<Call("staticallyResolve", <<"preserveWhitespaces">>)>>]
    IN IF typeof(value) # "boolean"
       THEN Throw(called, <<"preserveWhitespaces must resolve to a boolean if present">>)
       ELSE [called EXCEPT !.preserveWhitespaces = value]
  ELSE [c EXCEPT !.preserveWhitespaces = DefaultPreserveWhitespaces]

\* Mutation of TemplateUrl: the url numbers the analyses of the declaration.
TemplateUrl_Numbered(node) ==
  FileNameOf(node) \o "#" \o NameOf(node) \o "/template"
    \o ToString(invoked[node].analyze) \o ".html"

\* `${node.getSourceFile().fileName}#${node.name!.text}/template.html`
TemplateUrl(node) == FileNameOf(node) \o "#" \o NameOf(node) \o "/template.html"

\* One outcome for each answer the parser can give.
ParseTemplate(c) ==
  { LET called == [c EXCEPT !.calls = @ \o <<Call("parseTemplate",
                              <<c.templateStr.v, TemplateUrl(c.node), c.preserveWhitespaces.v>>)>>,
                            !.template = template]
    IN IF template.errorsDefined
       THEN Throw(called, <<"Errors parsing template: ">> \o join(template.errors, ", "))
       ELSE called
    : template \in ParseAnswers }

\* Mutation of RegisterSelector: the selector is registered without the null test.
RegisterSelector_Always(c) ==
  [c EXCEPT !.calls = @ \o <<Call("registerSelector", <<c.directiveMetadata.selector.v>>)>>]

\* Mutation of RegisterSelector: a selector that another declaration has
\* registered is not registered again.
RegisterSelector_UniqueSelector(c) ==
  IF /\ c.directiveMetadata.selector # NullVal
     /\ \A e \in DOMAIN registry : registry[e] # c.directiveMetadata.selector.v
  THEN [c EXCEPT !.calls = @ \o <<Call("registerSelector", <<c.directiveMetadata.selector.v>>)>>]
  ELSE c

RegisterSelector(c) ==
  IF c.directiveMetadata.selector # NullVal
  THEN [c EXCEPT !.calls = @ \o <<Call("registerSelector", <<c.directiveMetadata.selector.v>>)>>]
  ELSE c

\* Mutation of ReturnAnalysis: the analysis has no placeholder for the sibling sets.
ReturnAnalysis_NoPlaceholders(c) ==
  [c EXCEPT !.status = "analysis",
            !.analysis = [ name |-> c.directiveMetadata.name,
                           selector |-> c.directiveMetadata.selector,
                           template |-> c.template,
                           viewQueries |-> <<>> ]]

ReturnAnalysis(c) ==
  [c EXCEPT !.status = "analysis",
            !.analysis = [ name |-> c.directiveMetadata.name,
                           selector |-> c.directiveMetadata.selector,
                           template |-> c.template,
                           viewQueries |-> <<>>,
                           pipes |-> EMPTY_MAP,
                           directives |-> EMPTY_MAP ]]

\* Mutation of AnalyzeSteps: the directive metadata is extracted before the argument
\* is tested to be a literal.
AnalyzeSteps_ExtractFirst ==
  << "CheckArity", "ExtractDirective", "CheckLiteral", "ReadComponent", "ResolveTemplate",
     "ResolveWhitespaces", "ParseTemplate", "RegisterSelector", "ReturnAnalysis" >>

\* Mutation of AnalyzeSteps: the selector is registered before the template is parsed.
AnalyzeSteps_RegisterFirst ==
  << "CheckArity", "CheckLiteral", "ExtractDirective", "RegisterSelector", "ReadComponent",
     "ResolveTemplate", "ResolveWhitespaces", "ParseTemplate", "ReturnAnalysis" >>

\* Mutation of AnalyzeSteps: preserveWhitespaces is resolved before the template.
AnalyzeSteps_WhitespacesFirst ==
  << "CheckArity", "CheckLiteral", "ExtractDirective", "ReadComponent", "ResolveWhitespaces",
     "ResolveTemplate", "ParseTemplate", "RegisterSelector", "ReturnAnalysis" >>

\* The statements of analyze, in program order.
AnalyzeSteps ==
  << "CheckArity", "CheckLiteral", "ExtractDirective", "ReadComponent", "ResolveTemplate",
     "ResolveWhitespaces", "ParseTemplate", "RegisterSelector", "ReturnAnalysis" >>

\* The local states one statement can lead to from local state c: one, or one
\* for each answer of the collaborator the statement calls.
Step(name, c) ==
  CASE name = "CheckArity" -> {CheckArity(c)}
    [] name = "CheckLiteral" -> {CheckLiteral(c)}
    [] name = "ExtractDirective" -> ExtractDirective(c)
    [] name = "ReadComponent" -> {ReadComponent(c)}
    [] name = "ResolveTemplate" -> {ResolveTemplate(c)}
    [] name = "ResolveWhitespaces" -> {ResolveWhitespaces(c)}
    [] name = "ParseTemplate" -> ParseTemplate(c)
    [] name = "RegisterSelector" -> {RegisterSelector(c)}
    [] name = "ReturnAnalysis" -> {ReturnAnalysis(c)}

\* Run the statements from the i-th on; a throw or a return ends the call.
RECURSIVE RunFrom(_, _, _)
RunFrom(steps, i, c) ==
  IF i > Len(steps) \/ c.status # "running" THEN {c}
  ELSE UNION {RunFrom(steps, i + 1, c2) : c2 \in Step(steps[i], c)}

\* analyze(node, decorator): the ways the call can end.  Each gives how it ends
\* (`kind`), the error thrown, the analysis returned, the collaborator calls
\* made, in order, and what the extractor and the parser answered.
analyze(node, decorator) ==
  { [kind |-> c.status, error |-> c.error, analysis |-> c.analysis, calls |-> c.calls,
     directiveMetadata |-> c.directiveMetadata, template |-> c.template]
    : c \in RunFrom(AnalyzeSteps, 1, StartAnalyze(node, decorator)) }

\* ------------------------------------------------------------------ compile
\* Answers of scopeRegistry.lookupCompilationScope(node): null, or the scope of
\* the NgModule that declares the component.
CompilationScope(directives, pipes) ==
  [isNull |-> FALSE, fields |-> ("directives" :> directives) @@ ("pipes" :> pipes)]
NullScope == [isNull |-> TRUE, fields |-> [f \in {} |-> EMPTY_MAP]]

\* A scope object that has a property besides the two maps: the declared
\* return type of the lookup admits it.
ScopeWithSelector(directives, pipes, selector) ==
  [isNull |-> FALSE,
   fields |-> ("directives" :> directives) @@ ("pipes" :> pipes) @@ ("selector" :> selector)]

ScopeAnswers ==
  { NullScope,
    CompilationScope(MapObject(1, {"my-dir"}), MapObject(2, {"my-pipe"})),
    CompilationScope(MapObject(3, {}), MapObject(4, {})),
    ScopeWithSelector(MapObject(1, {"my-dir"}), MapObject(2, {"my-pipe"}), StringVal("scope-sel")) }

\* Answers of compileComponentFromMetadata: it throws, or it returns after
\* asking the constant pool for the given literals, in order.
Generated(literals) == [throws |-> FALSE, literals |-> literals]
GeneratorThrows == [throws |-> TRUE, literals |-> <<>>]
CodegenAnswers ==
  {GeneratorThrows, Generated(<<>>), Generated(<<"lit-a">>), Generated(<<"lit-a", "lit-b">>)}

\* Mutation of NewConstantPool: one pool is kept from one compile call to the next.
NewConstantPool_Shared ==
  IF last.op = "compile" THEN [statements |-> last.out.pool.statements] ELSE [statements |-> <<>>]

\* new ConstantPool(): no statements.
NewConstantPool == [statements |-> <<>>]

\* ConstantPool: each literal asked for adds one statement, named after the
\* number of statements the pool holds.
RECURSIVE PoolAfter(_, _)
PoolAfter(pool, literals) ==
  IF literals = <<>> THEN pool
  ELSE PoolAfter(
         [pool EXCEPT !.statements =
            @ \o <<[name |-> "_c" \o ToString(Len(pool.statements)), value |-> Head(literals)]>>],
         Tail(literals))

\* {...a, ...b}: every property of b, and the properties of a that b lacks.
Spread(a, b) == b @@ a

\* analysis = {...analysis, ...scope} when the scope is not null.
MergeScope(analysis0, scope) ==
  IF ~scope.isNull THEN Spread(analysis0, scope.fields) ELSE analysis0

\* Mutation of ArgumentAfter: the scope is assigned into the caller's object.
ArgumentAfter_Assigned(analysis0, merged) == merged

\* The object the caller passed as `analysis`, after the call: the spread
\* builds a new object and only the parameter is bound to it.
ArgumentAfter(analysis0, merged) == analysis0

\* Mutation of CompileCalls: compile registers a selector after the lookup.
CompileCalls_Registers ==
  << Call("lookupCompilationScope", <<>>), Call("registerSelector", <<"late">>),
     Call("compileComponentFromMetadata", <<>>) >>

\* The collaborator calls of one compile call, in order.
CompileCalls ==
  << Call("lookupCompilationScope", <<>>), Call("compileComponentFromMetadata", <<>>) >>

NoResult == [none |-> TRUE]

\* compile(node, analysis): the ways the call can end, one for each answer of
\* the scope lookup and of the generator.  Each gives how it ends, the
\* CompileResult, the metadata handed to the generator, the caller's analysis
\* object after the call, the pool at the end of the call, the collaborator
\* calls and their answers.
compile(node, analysis0) ==
  { LET merged == MergeScope(analysis0, scope)
        pool == PoolAfter(NewConstantPool, codegen.literals)
        res == [expression |-> [fn |-> "defineComponent", meta |-> merged],
                type |-> [fn |-> "ComponentDef", name |-> merged["name"]]]
    IN [kind |-> IF codegen.throws THEN "throw" ELSE "result",
        result |-> IF codegen.throws THEN NoResult
                   ELSE [name |-> "ngComponentDef",
                         initializer |-> res.expression,
                         statements |-> pool.statements,
                         type |-> res.type],
        generated |-> merged,
        argument |-> ArgumentAfter(analysis0, merged),
        pool |-> pool,
        calls |-> CompileCalls,
        scope |-> scope,
        codegen |-> codegen]
    : scope \in ScopeAnswers, codegen \in CodegenAnswers }

\* ------------------------------------------------------------------ registry
\* registerSelector(node, selector)
registerSelector(reg, node, selector) == (node :> selector) @@ reg

RegistryEntry(op, node) == [op |-> op, node |-> node]

\* The registry after the registerSelector calls of one analyze call.
RECURSIVE ApplyCalls(_, _, _)
ApplyCalls(reg, node, calls) ==
  IF calls = <<>> THEN reg
  ELSE ApplyCalls(
         IF Head(calls).fn = "registerSelector"
         THEN registerSelector(reg, node, Head(calls).args[1])
         ELSE reg,
         node, Tail(calls))

\* The registry calls among the collaborator calls of one handler call.
RECURSIVE RegistryCalls(_, _)
RegistryCalls(node, calls) ==
  IF calls = <<>> THEN <<>>
  ELSE (IF Head(calls).fn \in {"registerSelector", "lookupCompilationScope"}
        THEN <<RegistryEntry(Head(calls).fn, node)>>
        ELSE <<>>) \o RegistryCalls(node, Tail(calls))

\* ------------------------------------------------------------------ driver
States ==
  { "Undetected", "Unmatched", "Detected", "AnalyzeFailed", "AnalyzedEmpty", "Analyzed",
    "CompileFailed", "Compiled" }

\* Mutation of Pass1Complete: the driver does not wait for the end of pass 1.
Pass1Complete_NoBarrier == TRUE

\* Pass 1 is over: detect, and analyze for the matches, have run for every
\* declaration of the unit.
Pass1Complete == \A d \in Decl : state[d] \notin {"Undetected", "Detected"}

\* Pass 1 takes the declarations in source order.
NextInSourceOrder(d) == \A e \in Decl : e < d => state[e] \notin {"Undetected", "Detected"}

Init ==
  /\ state = [d \in Decl |-> "Undetected"]
  /\ detected = [d \in Decl |-> NoDecorator]
  /\ analysis = [d \in Decl |-> NoAnalysis]
  /\ results = [d \in Decl |-> NoResult]
  /\ registry = [d \in {} |-> ""]
  /\ regLog = <<>>
  /\ invoked = [d \in Decl |-> [analyze |-> 0, compile |-> 0]]
  /\ last = [op |-> "none"]

Detect(d) ==
  /\ state[d] = "Undetected"
  /\ NextInSourceOrder(d)
  /\ \E decorators \in DecoratorLists :
       LET found == detect(decorators) IN
       /\ state' = [state EXCEPT ![d] = IF found.found THEN "Detected" ELSE "Unmatched"]
       /\ detected' = [detected EXCEPT ![d] = found.value]
       /\ last' = [op |-> "detect", node |-> d, decorators |-> decorators, out |-> found]
  /\ UNCHANGED <<analysis, results, registry, regLog, invoked>>

AnalyzeState(kind) ==
  CASE kind = "throw" -> "AnalyzeFailed"
    [] kind = "empty" -> "AnalyzedEmpty"
    [] kind = "analysis" -> "Analyzed"

Analyze(d) ==
  /\ state[d] = "Detected"
  /\ \E args \in ArgLists :
       LET decorator == [name |-> detected[d].name, from |-> detected[d].from, args |-> args]
       IN \E out \in analyze(d, decorator) :
       /\ state' = [state EXCEPT ![d] = AnalyzeState(out.kind)]
       /\ analysis' = [analysis EXCEPT ![d] = out.analysis]
       /\ registry' = ApplyCalls(registry, d, out.calls)
       /\ regLog' = regLog \o RegistryCalls(d, out.calls)
       /\ last' = [op |-> "analyze", node |-> d, decorator |-> decorator, out |-> out]
  /\ invoked' = [invoked EXCEPT ![d].analyze = @ + 1]
  /\ UNCHANGED <<detected, results>>

\* One call of compile for d, with the analysis the driver holds for it.
CompileCall(d) ==
  /\ \E out \in compile(d, analysis[d]) :
       /\ state' = [state EXCEPT ![d] = IF out.kind = "throw" THEN "CompileFailed" ELSE "Compiled"]
       /\ analysis' = [analysis EXCEPT ![d] = out.argument]
       /\ results' = [results EXCEPT ![d] = out.result]
       /\ registry' = ApplyCalls(registry, d, out.calls)
       /\ regLog' = regLog \o RegistryCalls(d, out.calls)
       /\ last' = [op |-> "compile", node |-> d, analysis |-> analysis[d], out |-> out]
  /\ invoked' = [invoked EXCEPT ![d].compile = @ + 1]
  /\ UNCHANGED detected

Compile(d) ==
  /\ Pass1Complete
  /\ state[d] = "Analyzed"
  /\ CompileCall(d)

Next == \E d \in Decl : Detect(d) \/ Analyze(d) \/ Compile(d)

Spec == Init /\ [][Next]_vars

\* A driver that runs pass 2 several times over the analyzed declarations, each
\* time in source order, with the analysis it holds for each of them.
HasAnalysis(d) == state[d] \in {"Analyzed", "CompileFailed", "Compiled"}

NextInRound(d) ==
  \A e \in Decl :
    HasAnalysis(e) =>
      invoked[e].compile = invoked[d].compile + (IF e < d THEN 1 ELSE 0)

CompileInRounds(d) ==
  /\ Pass1Complete
  /\ HasAnalysis(d)
  /\ invoked[d].compile < MaxCompiles
  /\ NextInRound(d)
  /\ CompileCall(d)

NextRecompile == \E d \in Decl : Detect(d) \/ Analyze(d) \/ CompileInRounds(d)

SpecRecompile == Init /\ [][NextRecompile]_vars

\* A driver that takes the declarations of pass 1 one by one, in any order.
DetectAny(d) ==
  /\ state[d] = "Undetected"
  /\ \A e \in Decl : state[e] # "Detected"
  /\ \E decorators \in DecoratorLists :
       LET found == detect(decorators) IN
       /\ state' = [state EXCEPT ![d] = IF found.found THEN "Detected" ELSE "Unmatched"]
       /\ detected' = [detected EXCEPT ![d] = found.value]
       /\ last' = [op |-> "detect", node |-> d, decorators |-> decorators, out |-> found]
  /\ UNCHANGED <<analysis, results, registry, regLog, invoked>>

NextAnyOrder == \E d \in Decl : DetectAny(d) \/ Analyze(d)

SpecAnyOrder == Init /\ [][NextAnyOrder]_vars

\* ------------------------------------------------------------------ properties
InPass1(st) == \E d \in Decl : st[d] \in {"Undetected", "Detected"}

AnalyzeCalled(d) == invoked'[d].analyze = invoked[d].analyze + 1
CompileCalled(d) == invoked'[d].compile = invoked[d].compile + 1

\* The transitions of a declaration's state machine.  "Unmatched" is where a
\* declaration ends for which detect returned none: the handler is never
\* called for it again.
ForwardTransitions ==
  { <<"Undetected", "Detected">>, <<"Undetected", "Unmatched">>,
    <<"Detected", "AnalyzeFailed">>, <<"Detected", "AnalyzedEmpty">>, <<"Detected", "Analyzed">>,
    <<"Analyzed", "CompileFailed">>, <<"Analyzed", "Compiled">> }

C1_StateInv ==
  \A d \in Decl :
    /\ invoked[d].analyze <= 1
    /\ invoked[d].analyze = 1 <=>
         state[d] \in {"AnalyzeFailed", "AnalyzedEmpty", "Analyzed", "CompileFailed", "Compiled"}
    /\ invoked[d].compile = (IF state[d] \in {"CompileFailed", "Compiled"} THEN 1 ELSE 0)
    /\ state[d] \in {"CompileFailed", "Compiled"} => ~InPass1(state)

C1_StepOK ==
  \A d \in Decl :
    /\ state'[d] # state[d] => <<state[d], state'[d]>> \in ForwardTransitions
    /\ AnalyzeCalled(d) => state[d] = "Detected"
    /\ CompileCalled(d) => state[d] = "Analyzed" /\ ~InPass1(state)

\* C1: every declaration only moves forward along Undetected -> Detected ->
\* {AnalyzeFailed, AnalyzedEmpty, Analyzed} -> {CompileFailed, Compiled};
\* AnalyzeFailed and AnalyzedEmpty are terminal and compile is never invoked
\* for them; no declaration is analyzed twice; and compile is invoked for no
\* declaration while any declaration of the unit is still Undetected or Detected.
C1_Lifecycle == []C1_StateInv /\ [][C1_StepOK]_vars

\* One declaration's analysis failed, another one was skipped by the extractor
\* or compiled, and pass 2 compiled a declaration.
C1_Witness ==
  \E d, e \in Decl :
    /\ state[d] = "Compiled"
    /\ state[e] \in {"AnalyzeFailed", "AnalyzedEmpty"}
    /\ invoked[e].compile = 0

IsRegister(entry) == entry.op = "registerSelector"
IsLookup(entry) == entry.op = "lookupCompilationScope"
CallsOf(fn, calls) == {k \in DOMAIN calls : calls[k].fn = fn}

C2_StateInv ==
  /\ \A i, j \in DOMAIN regLog : IsLookup(regLog[i]) /\ IsRegister(regLog[j]) => j < i
  /\ last.op = "analyze" => CallsOf("lookupCompilationScope", last.out.calls) = {}
  /\ last.op = "compile" =>
       /\ CallsOf("registerSelector", last.out.calls) = {}
       /\ CallsOf("lookupCompilationScope", last.out.calls) # {}

C2_StepOK ==
  /\ ~InPass1(state) => registry' = registry
  /\ registry' # registry => \E d \in Decl : AnalyzeCalled(d)
  /\ \A k \in DOMAIN regLog' :
       k > Len(regLog) =>
         /\ IsRegister(regLog'[k]) => AnalyzeCalled(regLog'[k].node) /\ InPass1(state)
         /\ IsLookup(regLog'[k]) => CompileCalled(regLog'[k].node) /\ ~InPass1(state)

\* C2: the registry is written only in pass 1 and read only in pass 2: only
\* analyze calls registerSelector and it never calls lookupCompilationScope,
\* only compile calls lookupCompilationScope and it never calls
\* registerSelector; every write precedes every read, and the registry does
\* not change during pass 2.
C2_WriteThenRead == []C2_StateInv /\ [][C2_StepOK]_vars

\* A selector was registered in pass 1 and a scope was looked up in pass 2.
C2_Witness ==
  /\ \E i, j \in DOMAIN regLog : i < j /\ IsRegister(regLog[i]) /\ IsLookup(regLog[j])
  /\ last.op = "compile"
  /\ DOMAIN registry # {}

IsCoreComponent(decorator) == decorator.name = "Component" /\ decorator.from = "@angular/core"

C3_StateInv ==
  last.op = "detect" =>
    LET list == last.decorators
        hits == {i \in DOMAIN list : IsCoreComponent(list[i])}
    IN /\ last.out.found <=> hits # {}
       /\ last.out.found =>
            /\ last.out.index \in hits
            /\ \A i \in hits : last.out.index <= i
            /\ last.out.value = list[last.out.index]
       /\ ~last.out.found => last.out.index = 0

C3_StepOK ==
  (last' # last /\ last'.op = "detect") =>
    UNCHANGED <<analysis, results, registry, regLog, invoked>>

\* C3: detect returns the first decorator of the list that is named
\* 'Component' and comes from '@angular/core', and none exactly when the list
\* has no such decorator; a decorator with only the right name or only the
\* right origin is never returned; detect changes no state of the handler or
\* the registry.
C3_DetectFirstMatch == []C3_StateInv /\ [][C3_StepOK]_vars

\* detect skipped a 'Component' of a foreign module and returned the second decorator.
C3_Witness ==
  /\ last.op = "detect"
  /\ Len(last.decorators) >= 2
  /\ last.decorators[1] = [name |-> "Component", from |-> "some-lib"]
  /\ last.out.found
  /\ last.out.index = 2

RegisterCount(d) ==
  Cardinality({i \in DOMAIN regLog : regLog[i] = RegistryEntry("registerSelector", d)})

\* C4: a declaration whose extracted selector is not null is registered
\* exactly once, with that selector, by its successful analyze; a declaration
\* whose selector is null, or whose analyze did not succeed, is never
\* registered; registerSelector is never called twice for one declaration.
C4_RegisteredOnce ==
  \A d \in Decl :
    /\ RegisterCount(d) <= 1
    /\ IF /\ state[d] \in {"Analyzed", "CompileFailed", "Compiled"}
          /\ analysis[d].selector.t # "null"
       THEN /\ RegisterCount(d) = 1
            /\ d \in DOMAIN registry
            /\ registry[d] = analysis[d].selector.v
       ELSE /\ RegisterCount(d) = 0
            /\ d \notin DOMAIN registry
    /\ (last.op = "analyze" /\ last.node = d /\ last.out.kind = "analysis") =>
         analysis[d].selector = last.out.directiveMetadata.selector

\* One analyzed declaration is registered under its selector, another analyzed
\* declaration has a null selector and is not registered.
C4_Witness ==
  \E d, e \in Decl :
    /\ state[d] = "Analyzed" /\ d \in DOMAIN registry /\ registry[d] = "my-cmp"
    /\ state[e] = "Analyzed" /\ analysis[e].selector.t = "null" /\ e \notin DOMAIN registry

C5_StepOK ==
  \A d \in Decl :
    (AnalyzeCalled(d) /\ last'.out.kind = "throw") =>
      /\ registry' = registry
      /\ regLog' = regLog
      /\ d \notin DOMAIN registry'
      /\ last'.out.analysis = NoAnalysis
      /\ analysis' = analysis
      /\ results' = results
      /\ \A e \in Decl \ {d} : state'[e] = state[e]

\* C5: an analyze call that ends with an error leaves the registry as it was
\* before the call, with no entry for the declaration, returns no metadata,
\* and leaves the results of the other declarations unchanged.
C5_AllOrNothing == [][C5_StepOK]_vars

\* analyze failed on the template's parse errors for a declaration that has a
\* selector, after another declaration had been registered.
C5_Witness ==
  /\ last.op = "analyze"
  /\ last.out.kind = "throw"
  /\ last.out.template.errorsDefined
  /\ last.out.directiveMetadata.selector.t = "string"
  /\ \E e \in Decl \ {last.node} : e \in DOMAIN registry /\ state[e] = "Analyzed"
  /\ last.node \notin DOMAIN registry

\* The inputs of the most recent analyze call.
LastArgs == last.decorator.args
OneArg == ~LastArgs.isNull /\ Len(LastArgs.list) = 1
LiteralArg == OneArg /\ LastArgs.list[1].kind = "ObjectLiteralExpression"
LastFields == LastArgs.list[1].fields
ParseCalls == CallsOf("parseTemplate", last.out.calls)
NothingRegistered ==
  /\ CallsOf("registerSelector", last.out.calls) = {}
  /\ last.node \notin DOMAIN registry
  /\ RegisterCount(last.node) = 0

\* C6: analyze of a decorator with no argument list, no argument or more than
\* one argument fails with the argument-count error; the extractor, the
\* evaluator and the parser are not invoked and nothing is registered.
C6_WrongArityFails ==
  (last.op = "analyze" /\ ~OneArg) =>
    /\ last.out.kind = "throw"
    /\ last.out.error = <<"Incorrect number of arguments to @Component decorator">>
    /\ last.out.calls = <<>>
    /\ last.out.analysis = NoAnalysis
    /\ state[last.node] = "AnalyzeFailed"
    /\ NothingRegistered

\* analyze was given two arguments, the first a literal with a string template.
C6_Witness ==
  /\ last.op = "analyze"
  /\ ~LastArgs.isNull
  /\ Len(LastArgs.list) = 2
  /\ LastArgs.list[1] = ObjectLiteral("template" :> StringVal("<div></div>"))
  /\ last.out.kind = "throw"

\* C7: when the single argument is not an object literal, analyze fails with
\* "Decorator argument must be literal." before the extractor or the evaluator
\* has been invoked.
C7_NonLiteralFailsFirst ==
  (last.op = "analyze" /\ OneArg /\ ~LiteralArg) =>
    /\ last.out.kind = "throw"
    /\ last.out.error = <<"Decorator argument must be literal.">>
    /\ last.out.calls = <<>>
    /\ NothingRegistered

\* analyze was given one argument that is a reference, and failed.
C7_Witness ==
  /\ last.op = "analyze"
  /\ OneArg
  /\ LastArgs.list[1].kind = "Identifier"
  /\ last.out.kind = "throw"
  /\ state[last.node] = "AnalyzeFailed"

\* C8: when the extractor answers undefined for a declaration that passed the
\* argument-count and literal tests, analyze returns the empty result without
\* an error, whatever the literal's properties are: the template is not read,
\* the parser is not invoked and no selector is registered.
C8_SkipReturnsEmpty ==
  (last.op = "analyze" /\ LiteralArg /\ last.out.directiveMetadata.undefined) =>
    /\ last.out.kind = "empty"
    /\ last.out.error = <<>>
    /\ last.out.analysis = NoAnalysis
    /\ last.out.calls = <<Call("extractDirectiveMetadata", <<>>)>>
    /\ state[last.node] = "AnalyzedEmpty"
    /\ NothingRegistered

\* The extractor skipped a declaration that has no template and whose
\* preserveWhitespaces is a string.
C8_Witness ==
  /\ last.op = "analyze"
  /\ LiteralArg
  /\ LastFields = ("preserveWhitespaces" :> StringVal("yes"))
  /\ last.out.directiveMetadata.undefined
  /\ last.out.kind = "empty"

\* The most recent analyze call got as far as reading the template.
ReachedTemplate == last.op = "analyze" /\ LiteralArg /\ ~last.out.directiveMetadata.undefined
TemplateIsString == "template" \in DOMAIN LastFields /\ LastFields["template"].t = "string"
WhitespacesPresent == "preserveWhitespaces" \in DOMAIN LastFields
WhitespacesIsBoolean == WhitespacesPresent /\ LastFields["preserveWhitespaces"].t = "boolean"
ParsedOnce(markup) ==
  /\ Cardinality(ParseCalls) = 1
  /\ \A k \in ParseCalls : last.out.calls[k].args[1] = markup

TemplateFailure ==
  /\ last.out.kind = "throw"
  /\ ParseCalls = {}
  /\ NothingRegistered
  /\ IF "template" \in DOMAIN LastFields
     THEN last.out.error = <<"Template must statically resolve to a string: ", NameOf(last.node)>>
     ELSE last.out.error = <<"For now, components must directly have a template.">>

\* C9 as stated: a missing or non-string template makes analyze fail, and for
\* a string template the parser is invoked on that string.
C9_AsStated ==
  ReachedTemplate =>
    /\ ~TemplateIsString => TemplateFailure
    /\ TemplateIsString => ParsedOnce(LastFields["template"].v)

\* C9, amended: a missing or non-string template makes analyze fail with the
\* template error; for a string template analyze does not fail on the
\* template, and the parser is invoked on that string exactly when
\* preserveWhitespaces is absent or resolves to a boolean (otherwise analyze
\* fails on preserveWhitespaces and the parser is not invoked).
C9_TemplateCheck ==
  ReachedTemplate =>
    /\ ~TemplateIsString => TemplateFailure
    /\ TemplateIsString =>
         /\ last.out.error \notin
              { <<"Template must statically resolve to a string: ", NameOf(last.node)>>,
                <<"For now, components must directly have a template.">> }
         /\ (~WhitespacesPresent \/ WhitespacesIsBoolean) => ParsedOnce(LastFields["template"].v)
         /\ ~(~WhitespacesPresent \/ WhitespacesIsBoolean) =>
              /\ ParseCalls = {}
              /\ last.out.error = <<"preserveWhitespaces must resolve to a boolean if present">>

\* The template is a string, preserveWhitespaces is not a boolean: analyze
\* failed and the parser was not invoked.
C9_Witness ==
  /\ ReachedTemplate
  /\ TemplateIsString
  /\ WhitespacesPresent
  /\ ~WhitespacesIsBoolean
  /\ last.out.kind = "throw"
  /\ ParseCalls = {}

\* The template is a number: analyze failed with the message naming the class.
C9_WitnessNonString ==
  /\ ReachedTemplate
  /\ "template" \in DOMAIN LastFields
  /\ LastFields["template"].t = "number"
  /\ last.out.error = <<"Template must statically resolve to a string: ", NameOf(last.node)>>

\* The option of the one parseTemplate call of the most recent analyze call.
OptionHanded(b) ==
  /\ Cardinality(ParseCalls) = 1
  /\ \A k \in ParseCalls : last.out.calls[k].args[3] = b

C10_WitnessDefault ==
  /\ ReachedTemplate
  /\ TemplateIsString
  /\ ~WhitespacesPresent
  /\ OptionHanded("false")


\* The parser was invoked by the most recent analyze call and reported errors.
ParserReported == last.op = "analyze" /\ ParseCalls # {} /\ last.out.template.errorsDefined
Diagnostics == last.out.template.errors

\* C11: when the parser reports N >= 1 errors, analyze fails with one error
\* whose message is "Errors parsing template: " followed by all N messages in
\* the parser's order, separated by ", "; no analysis is returned and no
\* selector is registered.
C11_AllDiagnosticsReported ==
  (ParserReported /\ Len(Diagnostics) >= 1) =>
    /\ last.out.kind = "throw"
    /\ Len(last.out.error) = 2 * Len(Diagnostics)
    /\ last.out.error[1] = "Errors parsing template: "
    /\ \A i \in 1..Len(Diagnostics) : last.out.error[2 * i] = Diagnostics[i]
    /\ \A i \in 1..(Len(Diagnostics) - 1) : last.out.error[2 * i + 1] = ", "
    /\ last.out.analysis = NoAnalysis
    /\ analysis[last.node] = NoAnalysis
    /\ state[last.node] = "AnalyzeFailed"
    /\ NothingRegistered

\* The parser reported two different errors for a declaration with a selector.
C11_Witness ==
  /\ ParserReported
  /\ Diagnostics = <<"unexpected closing tag", "unclosed tag div">>
  /\ last.out.directiveMetadata.selector.t = "string"
  /\ last.out.kind = "throw"


SiblingFields == {"pipes", "directives"}

\* C12 as stated: when the lookup returns a scope, the metadata handed to the
\* generator has the scope's two sibling sets, and every other field as in the
\* analyze-phase metadata, whatever other properties the scope object carries.
C12_AsStated ==
  (last.op = "compile" /\ ~last.out.scope.isNull) =>
    /\ DOMAIN last.out.generated = DOMAIN last.analysis
    /\ \A f \in SiblingFields : last.out.generated[f] = last.out.scope.fields[f]
    /\ \A f \in DOMAIN last.analysis \ SiblingFields : last.out.generated[f] = last.analysis[f]

\* compile merged a scope into the metadata.
C12_Merged ==
  /\ last.op = "compile"
  /\ ~last.out.scope.isNull
  /\ last.out.generated["pipes"].entries = {"my-pipe"}
  /\ last.out.kind = "result"

\* The metadata handed to the generator when the lookup returns null, compared
\* with the one handed over for a scope whose two sets are empty.
SameButForMapIdentity(m1, m2) ==
  /\ DOMAIN m1 = DOMAIN m2
  /\ \A f \in DOMAIN m1 :
       IF f \in SiblingFields THEN m1[f].entries = m2[f].entries ELSE m1[f] = m2[f]

IsEmptyScope(scope) ==
  /\ ~scope.isNull
  /\ DOMAIN scope.fields = SiblingFields
  /\ \A f \in SiblingFields : scope.fields[f].entries = {}

\* C13: when the lookup returns null, compile raises no error of its own: it
\* hands the analyze-phase metadata, whose two sibling sets are still empty, to
\* the generator and packages what the generator returns; the metadata is the
\* one handed over for a resolved scope with two empty sets, map identity aside.
C13_NoScopeNoSiblings ==
  (last.op = "compile" /\ last.out.scope.isNull) =>
    /\ last.out.generated = last.analysis
    /\ SiblingFields \subseteq DOMAIN last.out.generated
    /\ \A f \in SiblingFields : last.out.generated[f].entries = {}
    /\ last.out.kind = "throw" => last.out.codegen.throws
    /\ ~last.out.codegen.throws =>
         /\ last.out.kind = "result"
         /\ state[last.node] = "Compiled"
         /\ results[last.node] = last.out.result
         /\ last.out.result.name = "ngComponentDef"
         /\ last.out.result.initializer.meta = last.analysis
    /\ \A o \in compile(last.node, last.analysis) :
         IsEmptyScope(o.scope) => SameButForMapIdentity(o.generated, last.out.generated)

\* compile found no scope and returned a result with supporting statements.
C13_Witness ==
  /\ last.op = "compile"
  /\ last.out.scope.isNull
  /\ last.out.kind = "result"
  /\ Len(last.out.result.statements) = 2
  /\ last.out.result.initializer.meta["directives"].entries = {}


\* The statements the pool hands out for the literals the generator asked
\* for during one call, in the order asked.
RECURSIVE StatementsFor(_, _)
StatementsFor(literals, n) ==
  IF literals = <<>> THEN <<>>
  ELSE <<[name |-> "_c" \o ToString(n), value |-> Head(literals)]>>
         \o StatementsFor(Tail(literals), n + 1)

\* C14: whatever compile calls came before, for other declarations or for the
\* same one, the pool of a compile call holds at its end exactly the
\* statements made for the literals the generator asked for during that call,
\* in that order, and these are the statements of the CompileResult.
C14_FreshPool ==
  last.op = "compile" =>
    /\ last.out.pool.statements = StatementsFor(last.out.codegen.literals, 0)
    /\ last.out.kind = "result" =>
         /\ last.out.result.statements = last.out.pool.statements
         /\ results[last.node].statements = StatementsFor(last.out.codegen.literals, 0)

\* A declaration was compiled a second time, after another declaration was
\* compiled with statements, and the generator asked for one literal.
C14_Witness ==
  /\ last.op = "compile"
  /\ invoked[last.node].compile = 2
  /\ last.out.codegen.literals = <<"lit-a">>
  /\ last.out.kind = "result"
  /\ \E e \in Decl \ {last.node} :
       /\ state[e] = "Compiled"
       /\ Len(results[e].statements) = 2

C15_WitnessAnalyze ==
  /\ last.op = "analyze"
  /\ last.node = 2
  /\ last.out.kind = "analysis"
  /\ state[1] = "Analyzed"

\* The placeholder fields of the analyses the driver holds.
Placeholders == {<<d, f>> : d \in {e \in Decl : HasAnalysis(e)}, f \in SiblingFields}

\* C16 as stated: no two placeholder sibling-set fields, of one declaration or
\* of two, are the same collection.
C16_AsStated ==
  \A p, q \in Placeholders :
    p # q => analysis[p[1]][p[2]].id # analysis[q[1]][q[2]].id

\* What the code does instead: every placeholder is the one EMPTY_MAP object.
C16_AllShared ==
  \A p \in Placeholders : analysis[p[1]][p[2]] = EMPTY_MAP

\* Two declarations are analyzed.
C16_TwoAnalyzed == \A d \in {1, 2} : state[d] = "Analyzed"

\* The collaborator calls of the most recent call, by name, in order.
CallName(call) ==
  IF call.fn = "staticallyResolve" THEN "staticallyResolve:" \o call.args[1] ELSE call.fn
Trace == [k \in DOMAIN last.out.calls |-> CallName(last.out.calls[k])]

\* The most recent analyze call failed with this error after exactly these calls.
DecidedBy(error, trace) ==
  /\ last.out.kind = "throw"
  /\ last.out.error = error
  /\ Trace = trace
  /\ last.out.analysis = NoAnalysis
  /\ NothingRegistered

UpToParse ==
  <<"extractDirectiveMetadata", "reflectObjectLiteral", "staticallyResolve:template">>
    \o (IF WhitespacesPresent THEN <<"staticallyResolve:preserveWhitespaces">> ELSE <<>>)
    \o <<"parseTemplate">>

\* C17: the first check that fails, in the order argument count, literal
\* argument, extractor's skip, template presence, template type,
\* preserveWhitespaces type, parse errors, decides how analyze ends, whatever
\* later checks the input fails as well; the collaborator calls made are
\* exactly those that precede the deciding check, and the selector is
\* registered only after all of them, as the last call.
C17_FixedOrder ==
  last.op = "analyze" =>
    IF ~OneArg
      THEN DecidedBy(<<"Incorrect number of arguments to @Component decorator">>, <<>>)
    ELSE IF ~LiteralArg
      THEN DecidedBy(<<"Decorator argument must be literal.">>, <<>>)
    ELSE IF last.out.directiveMetadata.undefined
      THEN last.out.kind = "empty" /\ Trace = <<"extractDirectiveMetadata">> /\ NothingRegistered
    ELSE IF "template" \notin DOMAIN LastFields
      THEN DecidedBy(<<"For now, components must directly have a template.">>,
                     <<"extractDirectiveMetadata", "reflectObjectLiteral">>)
    ELSE IF ~TemplateIsString
      THEN DecidedBy(<<"Template must statically resolve to a string: ", NameOf(last.node)>>,
                     <<"extractDirectiveMetadata", "reflectObjectLiteral",
                       "staticallyResolve:template">>)
    ELSE IF WhitespacesPresent /\ ~WhitespacesIsBoolean
      THEN DecidedBy(<<"preserveWhitespaces must resolve to a boolean if present">>,
                     <<"extractDirectiveMetadata", "reflectObjectLiteral",
                       "staticallyResolve:template", "staticallyResolve:preserveWhitespaces">>)
    ELSE IF Len(last.out.template.errors) >= 1
      THEN /\ last.out.kind = "throw"
           /\ last.out.error[1] = "Errors parsing template: "
           /\ Trace = UpToParse
           /\ NothingRegistered
    ELSE IF last.out.kind = "analysis"
      THEN Trace = UpToParse \o (IF last.out.directiveMetadata.selector.t # "null"
                                 THEN <<"registerSelector">> ELSE <<>>)
    ELSE /\ last.out.kind = "throw"
         /\ Trace = UpToParse
         /\ NothingRegistered

\* The template is a number and preserveWhitespaces is a string: analyze
\* failed on the template and did not resolve preserveWhitespaces.
C17_Witness ==
  /\ ReachedTemplate
  /\ LastFields = ("template" :> NumberVal("42")) @@ ("preserveWhitespaces" :> StringVal("yes"))
  /\ last.out.kind = "throw"
  /\ Len(last.out.calls) = 3

\* Two arguments, the first a reference: analyze failed on the argument count.
C17_WitnessArity ==
  /\ last.op = "analyze"
  /\ ~LastArgs.isNull
  /\ Len(LastArgs.list) = 2
  /\ LastArgs.list[1].kind = "Identifier"
  /\ last.out.error = <<"Incorrect number of arguments to @Component decorator">>

\* The most recent analyze call succeeded with the template the parser
\* returned, and registered the selector if there is one.
SucceededWithTemplate ==
  /\ last.out.kind = "analysis"
  /\ last.out.analysis["template"] = last.out.template
  /\ analysis[last.node] = last.out.analysis
  /\ last.out.directiveMetadata.selector.t # "null" =>
       /\ last.node \in DOMAIN registry
       /\ registry[last.node] = last.out.directiveMetadata.selector.v

\* C19 as stated: once the parser has been invoked, analyze fails exactly when
\* the parser reported at least one error; for an empty list of errors it
\* registers the non-null selector and returns the analysis with the parsed
\* template.
C19_AsStated ==
  (last.op = "analyze" /\ ParseCalls # {}) =>
    /\ last.out.kind = "throw" <=> Len(Diagnostics) >= 1
    /\ Len(Diagnostics) = 0 => SucceededWithTemplate

\* What the code does: it fails exactly when the parser's answer has an
\* `errors` list, empty or not.
C19_FailsOnDefinedErrors ==
  (last.op = "analyze" /\ ParseCalls # {}) =>
    /\ last.out.kind = "throw" <=> last.out.template.errorsDefined
    /\ ~last.out.template.errorsDefined => SucceededWithTemplate

\* The parser's answer had an empty list of errors and analyze failed.
C19_EmptyErrorsFail ==
  /\ ParserReported
  /\ Diagnostics = <<>>
  /\ last.out.kind = "throw"
  /\ last.out.error = <<"Errors parsing template: ">>

C20_StateInv ==
  /\ \A d \in Decl :
       HasAnalysis(d) => \A f \in SiblingFields : analysis[d][f] = EMPTY_MAP
  /\ last.op = "compile" =>
       /\ last.out.argument = last.analysis
       /\ analysis[last.node] = last.analysis

C20_StepOK ==
  \A d \in Decl :
    CompileCalled(d) =>
      /\ analysis' = analysis
      /\ registry' = registry
      /\ last'.analysis = analysis[d]

\* C20: a compile call changes neither the analysis it was given, whose
\* sibling sets are the empty placeholders before and after the call whatever
\* scope was merged, nor the registry: every later compile call, for the same
\* declaration or another one, is given the analysis that analyze returned.
C20_InputsUntouched == []C20_StateInv /\ [][C20_StepOK]_vars

\* A declaration was compiled twice, the second time with a scope that has
\* directives and pipes, and its stored analysis still has none.
C20_Witness ==
  /\ last.op = "compile"
  /\ invoked[last.node].compile = 2
  /\ ~last.out.scope.isNull
  /\ last.out.generated["directives"].entries = {"my-dir"}
  /\ analysis[last.node]["directives"].entries = {}
  /\ last.node \in DOMAIN registry

\* The declarations that pass 1 has to register, by their own analyze outcome.
ToRegister == {d \in Decl : HasAnalysis(d) /\ analysis[d].selector.t # "null"}

\* A decorator for declaration e whose analysis can end in each of the ways
\* analyze can end after the argument tests.
Probe(e) ==
  [name |-> detected[e].name, from |-> detected[e].from,
   args |-> ArgList(<<ObjectLiteral("template" :> StringVal("<div></div>"))>>)]

\* How one analyze call ended, and the selector it registered.
Registered(out) == {out.calls[k].args[1] : k \in CallsOf("registerSelector", out.calls)}
Ending(out) == <<out.kind, out.directiveMetadata.selector, Registered(out)>>

\* The ways the analysis of the probe ends that do not fail on the template:
\* skipped, analyzed without a selector, analyzed and registered.
ProbeEndings ==
  { <<"empty", NullVal, {}>>,
    <<"analysis", NullVal, {}>>,
    <<"analysis", StringVal("my-cmp"), {"my-cmp"}>> }

\* C18: in whatever order pass 1 takes the declarations, and whatever the
\* declarations analyzed before have registered: the registry holds exactly
\* the (declaration, selector) entries of the declarations analyzed with a
\* non-null selector; the outcome of an analyze call is one that analyze gives
\* for the same inputs after the call as well; and a declaration still to be
\* analyzed can end in the same ways, with the same registration.
C18_OrderIndependent ==
  /\ DOMAIN registry = ToRegister
  /\ \A d \in ToRegister : registry[d] = analysis[d].selector.v
  /\ last.op = "analyze" =>
       /\ state[last.node] = AnalyzeState(last.out.kind)
       /\ analysis[last.node] = last.out.analysis
       /\ last.out \in analyze(last.node, last.decorator)
  /\ \A e \in Decl :
       state[e] = "Detected" =>
         {Ending(o) : o \in {o \in analyze(e, Probe(e)) : o.kind # "throw"}} = ProbeEndings

\* The second declaration was analyzed and registered before the first.
C18_Witness ==
  /\ Len(regLog) = 2
  /\ regLog[1] = RegistryEntry("registerSelector", 2)
  /\ regLog[2] = RegistryEntry("registerSelector", 1)
  /\ registry[1] = "my-cmp"
  /\ registry[2] = "my-cmp"
  /\ last.op = "analyze"
  /\ last.node = 1

====
